---- MODULE Spec2Model ----
(***************************************************************************)
(* Model of src/unspike.py: calculate_angle, filter_polygon and            *)
(* filter_vertices.                                                        *)
(*                                                                         *)
(* Coordinates are integers: an input coordinate c is stored as 2*c, so    *)
(* that the midpoint the seam re-check computes is exact.  Angles are      *)
(* scale invariant.  calculate_angle is computed exactly from dot products *)
(* and squared norms and reported as the largest step of AngleLadder that  *)
(* the true angle reaches; for every min_angle on the ladder the test      *)
(* "angle >= min_angle" of the code is then decided exactly.               *)
(*                                                                         *)
(* shapely's is_valid is computed (OGC validity of a single ring, on the   *)
(* XY projection); shapely's make_valid is a nondeterministic choice over  *)
(* the kinds of geometry it can return for an invalid ring.  Floating      *)
(* point is modelled as exact arithmetic.                                  *)
(***************************************************************************)
EXTENDS Integers, Sequences, FiniteSets

VARIABLES geometry, min_angle, pc, result, error, calls

vars == <<geometry, min_angle, pc, result, error, calls>>

(***************************************************************************)
(* Bounds of the model.                                                    *)
(***************************************************************************)
\* longest working list (ring without its closing duplicate) of a Polygon input
MaxLen == 4
\* most sub-polygons of a MultiPolygon input
MaxParts == 2

(***************************************************************************)
(* Python values.                                                          *)
(***************************************************************************)
\* None, as check_angle returns it for a dropped vertex
None == <<>>

\* s[i] with Python's indexing: 0-based, negative indices count from the end
At(s, i) == IF i < 0 THEN s[Len(s) + i + 1] ELSE s[i + 1]

\* a % b of Python for b > 0
PyMod(a, b) == a % b

(***************************************************************************)
(* Vectors.                                                                *)
(***************************************************************************)
\* np.array(p) - np.array(q)
Sub(p, q) == [k \in 1..Len(p) |-> p[k] - q[k]]

RECURSIVE DotFrom(_, _, _)
DotFrom(u, v, k) == IF k > Len(u) THEN 0 ELSE u[k] * v[k] + DotFrom(u, v, k + 1)

\* np.dot(u, v)
Dot(u, v) == DotFrom(u, v, 1)

\* np.linalg.norm(v) squared
NormSq(v) == Dot(v, v)

(***************************************************************************)
(* calculate_angle.                                                        *)
(***************************************************************************)
AngleLadder == {0, 30, 45, 60, 90, 120, 135, 150, 180}

\* arccos(dot / (norm_v1 * norm_v2)) >= t degrees, for t on the ladder and
\* n1sq, n2sq > 0: cos(angle) <= cos(t), decided on integers
AngleAtLeast(dot, n1sq, n2sq, t) ==
    CASE t = 0   -> TRUE
      [] t = 30  -> dot <= 0 \/ 4 * dot * dot <= 3 * n1sq * n2sq
      [] t = 45  -> dot <= 0 \/ 2 * dot * dot <= n1sq * n2sq
      [] t = 60  -> dot <= 0 \/ 4 * dot * dot <= n1sq * n2sq
      [] t = 90  -> dot <= 0
      [] t = 120 -> dot < 0 /\ 4 * dot * dot >= n1sq * n2sq
      [] t = 135 -> dot < 0 /\ 2 * dot * dot >= n1sq * n2sq
      [] t = 150 -> dot < 0 /\ 4 * dot * dot >= 3 * n1sq * n2sq
      [] t = 180 -> dot < 0 /\ dot * dot = n1sq * n2sq

\* the largest element of a non-empty set of integers
MaxOf(S) == CHOOSE x \in S : \A y \in S : y <= x

\* calculate_angle(p0, p1, p2): degrees, on the ladder
calculate_angle(p0, p1, p2) ==
    LET v1 == Sub(p0, p1)
        v2 == Sub(p2, p1)
        dot_product == Dot(v1, v2)
    IN  IF NormSq(v1) = 0 \/ NormSq(v2) = 0
        THEN 180
        ELSE MaxOf({t \in AngleLadder :
                      AngleAtLeast(dot_product, NormSq(v1), NormSq(v2), t)})

\* check_angle with the dropped vertex left uncounted
check_angleNoCount(prev, curr, next, minAngle) ==
    IF calculate_angle(prev, curr, next) >= minAngle
    THEN <<curr, 0>>
    ELSE <<None, 0>>

\* check_angle of filter_polygon: <<the vertex or None, 0 or 1>>
check_angle(prev, curr, next, minAngle) ==
    IF calculate_angle(prev, curr, next) >= minAngle
    THEN <<curr, 0>>
    ELSE <<None, 1>>

(***************************************************************************)
(* Geometries.  A geometry is a record: kind, exterior (the coordinates of *)
(* the exterior ring, closing duplicate included; <<>> when empty),        *)
(* interiors (the holes), geoms (the parts of a multi-part geometry) and   *)
(* part: 0 for a geometry built from coordinates, j > 0 for the j-th       *)
(* component make_valid produced from the ring in exterior (its own        *)
(* coordinates are not modelled).                                          *)
(***************************************************************************)
Geom(kind, exterior, interiors, geoms, part) ==
    [kind |-> kind, exterior |-> exterior, interiors |-> interiors,
     geoms |-> geoms, part |-> part]

\* Polygon(coords) and Polygon()
Polygon(coords) == Geom("Polygon", coords, <<>>, <<>>, 0)
EmptyPolygon == Polygon(<<>>)

\* MultiPolygon(polygons)
MultiPolygon(polygons) == Geom("MultiPolygon", <<>>, <<>>, polygons, 0)

\* geometry.is_empty
is_empty(g) ==
    IF g.kind \in {"MultiPolygon", "GeometryCollection", "MultiLineString"}
    THEN g.geoms = <<>>
    ELSE g.exterior = <<>>

\* isinstance(g, Polygon)
IsPolygon(g) == g.kind = "Polygon"

\* g has the attribute geoms
HasGeoms(g) == g.kind \in {"MultiPolygon", "GeometryCollection", "MultiLineString"}

(***************************************************************************)
(* shapely: is_valid and make_valid.                                       *)
(***************************************************************************)
\* the projection validity is decided on (GEOS ignores z)
XY(p) == <<p[1], p[2]>>

\* twice the signed area of the triangle a, b, c
Cross(a, b, c) == (b[1] - a[1]) * (c[2] - a[2]) - (b[2] - a[2]) * (c[1] - a[1])

Min2(x, y) == IF x <= y THEN x ELSE y
Max2(x, y) == IF x >= y THEN x ELSE y

\* p lies on the closed segment a-b
OnSegment(a, b, p) ==
    /\ Cross(a, b, p) = 0
    /\ Min2(a[1], b[1]) <= p[1] /\ p[1] <= Max2(a[1], b[1])
    /\ Min2(a[2], b[2]) <= p[2] /\ p[2] <= Max2(a[2], b[2])

\* the closed segments a-b and c-d have a point in common
SegmentsIntersect(a, b, c, d) ==
    \/ /\ Cross(c, d, a) * Cross(c, d, b) < 0
       /\ Cross(a, b, c) * Cross(a, b, d) < 0
    \/ OnSegment(c, d, a) \/ OnSegment(c, d, b)
    \/ OnSegment(a, b, c) \/ OnSegment(a, b, d)

RECURSIVE NoRepeatFrom(_, _, _)
NoRepeatFrom(s, k, acc) ==
    IF k > Len(s) THEN acc
    ELSE NoRepeatFrom(s, k + 1,
                      IF acc # <<>> /\ acc[Len(acc)] = s[k] THEN acc ELSE Append(acc, s[k]))

\* the XY vertices of a closed coordinate list, repeated points and the
\* closing duplicate removed
RingVertices(coords) ==
    LET xy == [k \in 1..Len(coords) |-> XY(coords[k])]
        nr == NoRepeatFrom(xy, 1, <<>>)
    IN  IF Len(nr) > 1 /\ nr[Len(nr)] = nr[1] THEN SubSeq(nr, 1, Len(nr) - 1) ELSE nr

\* the ring w (vertices, no repeats) does not touch or cross itself
RingIsSimple(w) ==
    LET m == Len(w)
        a(i) == w[i]
        b(i) == w[(i % m) + 1]
    IN  \A i \in 1..m : \A j \in (i + 1)..m :
            IF j = i + 1
            THEN ~OnSegment(a(j), a(i), b(j)) /\ ~OnSegment(a(j), b(j), a(i))
            ELSE IF i = 1 /\ j = m
            THEN ~OnSegment(a(i), b(i), a(j)) /\ ~OnSegment(a(i), a(j), b(i))
            ELSE ~SegmentsIntersect(a(i), b(i), a(j), b(j))

\* polygon.is_valid, for a polygon without holes
is_valid(poly) ==
    \/ poly.exterior = <<>>
    \/ LET w == RingVertices(poly.exterior)
       IN  Len(w) >= 3 /\ RingIsSimple(w)

\* every vertex of the ring has the same XY position
AllEqualXY(coords) == \A k \in 1..Len(coords) : XY(coords[k]) = XY(coords[1])

\* every vertex of the ring lies on one line of the XY plane
CollinearXY(coords) ==
    \A i, j, k \in 1..Len(coords) : Cross(XY(coords[i]), XY(coords[j]), XY(coords[k])) = 0

\* the j-th component make_valid produced from the ring coords
Part(kind, coords, j) == Geom(kind, coords, <<>>, <<>>, j)

\* make_valid(poly) for an invalid polygon: the geometries it can return.  It
\* loses no vertex, so the result is never empty; a ring collapsed to a point
\* or a line yields no polygon.
make_valid(poly) ==
    LET c == poly.exterior
        line == Part("LineString", c, 1)
        lines == Geom("MultiLineString", <<>>, <<>>,
                      <<Part("LineString", c, 1), Part("LineString", c, 2)>>, 1)
    IN  IF AllEqualXY(c) THEN {Part("Point", c, 1)}
        ELSE IF CollinearXY(c) THEN {line, lines}
        ELSE {Part("Polygon", c, 1),
              Geom("MultiPolygon", <<>>, <<>>,
                   <<Part("Polygon", c, 1), Part("Polygon", c, 2)>>, 1),
              Geom("GeometryCollection", <<>>, <<>>,
                   <<Part("Polygon", c, 1), Part("LineString", c, 2)>>, 1),
              line, lines}

(***************************************************************************)
(* filter_polygon.                                                         *)
(***************************************************************************)
\* line 81: the neighbours the main pass tests vertex i of coords against
Neighbours(coords, i) ==
    <<At(coords, i - 1), At(coords, i), At(coords, PyMod(i + 1, Len(coords) - 1))>>

RECURSIVE MainPass(_, _, _, _, _)
\* lines 80-85: the loop over range(len(coords) - 1), from index i on
MainPass(coords, i, new_coords, spikes_removed, minAngle) ==
    IF i >= Len(coords) - 1
    THEN <<new_coords, spikes_removed>>
    ELSE LET nb == Neighbours(coords, i)
             r == check_angle(nb[1], nb[2], nb[3], minAngle)
         IN  MainPass(coords, i + 1,
                      IF r[1] # None THEN Append(new_coords, r[1]) ELSE new_coords,
                      spikes_removed + r[2], minAngle)

\* line 92: the midpoint of two vertices
Midpoint(p, q) == [k \in 1..Len(p) |-> (p[k] + q[k]) \div 2]

\* the seam re-check dropping the sharp start/end point
SeamCheckDrop(new_coords, spikes_removed, minAngle) ==
    LET r == check_angle(At(new_coords, -1), At(new_coords, 0), At(new_coords, 1), minAngle)
    IN  IF r[1] = None
        THEN <<Tail(new_coords), spikes_removed + r[2]>>
        ELSE <<new_coords, spikes_removed>>

\* the seam re-check replacing the start/end point whatever its angle
SeamCheckAlways(new_coords, spikes_removed, minAngle) ==
    <<[new_coords EXCEPT ![1] = Midpoint(At(new_coords, -1), At(new_coords, 1))],
      spikes_removed>>

\* the seam re-check losing the count of the main pass when it replaces nothing
SeamCheckResetsCount(new_coords, spikes_removed, minAngle) ==
    LET r == check_angle(At(new_coords, -1), At(new_coords, 0), At(new_coords, 1), minAngle)
    IN  IF r[1] = None
        THEN <<[new_coords EXCEPT ![1] = Midpoint(At(new_coords, -1), At(new_coords, 1))],
               spikes_removed + r[2]>>
        ELSE <<new_coords, 0>>

\* lines 88-94, for len(new_coords) >= 3: <<new_coords, spikes_removed>> after
\* the re-check of the start/end point
SeamCheck(new_coords, spikes_removed, minAngle) ==
    LET r == check_angle(At(new_coords, -1), At(new_coords, 0), At(new_coords, 1), minAngle)
    IN  IF r[1] = None
        THEN <<[new_coords EXCEPT ![1] = Midpoint(At(new_coords, -1), At(new_coords, 1))],
               spikes_removed + r[2]>>
        ELSE <<new_coords, spikes_removed>>

\* the polygon built from the ring left open
BuildPolygonOpen(new_coords) == Polygon(new_coords)

\* lines 99-101: close the ring and build the polygon
BuildPolygon(new_coords) == Polygon(Append(new_coords, At(new_coords, 0)))

\* lines 103-105: the polygons the validity repair can leave
Repaired(filtered_poly) ==
    IF ~is_valid(filtered_poly) THEN make_valid(filtered_poly) ELSE {filtered_poly}

\* filter_polygon(poly, feature_id, min_angle, verbose): the calls it can make,
\* one per outcome of make_valid.  A call records the input, the output of the
\* main pass (main, main_spikes), the output of the seam re-check (seam), the
\* polygon built before the validity repair (built) and the pair returned
\* (geom, spikes).
filter_polygon(poly, minAngle) ==
    LET coords == poly.exterior
        mp == MainPass(coords, 0, <<>>, 0, minAngle)
        call(seam, built, geom, spikes) ==
            [poly |-> poly, main |-> mp[1], main_spikes |-> mp[2], seam |-> seam,
             built |-> built, geom |-> geom, spikes |-> spikes]
    IN  IF Len(mp[1]) >= 3
        THEN LET sc == SeamCheck(mp[1], mp[2], minAngle)
                 filtered_poly == BuildPolygon(sc[1])
             IN  {call(sc[1], filtered_poly, g, sc[2]) : g \in Repaired(filtered_poly)}
        ELSE {call(<<>>, EmptyPolygon, EmptyPolygon, mp[2])}

(***************************************************************************)
(* filter_vertices.                                                        *)
(***************************************************************************)
\* line 135: filtered_polys.extend(...); <<the list, the exception raised>>
Extend(filtered_polys, filtered_poly) ==
    IF IsPolygon(filtered_poly) THEN <<Append(filtered_polys, filtered_poly), <<>>>>
    ELSE IF HasGeoms(filtered_poly) THEN <<filtered_polys \o filtered_poly.geoms, <<>>>>
    ELSE <<filtered_polys, <<"AttributeError", filtered_poly.kind>>>>

\* the loop body counting the spikes of the kept sub-results only
LoopBodyCountKept(acc, c) ==
    LET ext == IF ~is_empty(c.geom) THEN Extend(acc.filtered_polys, c.geom)
               ELSE <<acc.filtered_polys, <<>>>>
    IN  IF ext[2] # <<>>
        THEN [acc EXCEPT !.calls = Append(@, c), !.error = ext[2]]
        ELSE [acc EXCEPT !.calls = Append(@, c), !.filtered_polys = ext[1],
                         !.total_spikes_removed =
                             IF is_empty(c.geom) THEN @ ELSE @ + c.spikes]

\* lines 134-136: one iteration of the loop, for the call c of filter_polygon
LoopBody(acc, c) ==
    LET ext == IF ~is_empty(c.geom) THEN Extend(acc.filtered_polys, c.geom)
               ELSE <<acc.filtered_polys, <<>>>>
    IN  IF ext[2] # <<>>
        THEN [acc EXCEPT !.calls = Append(@, c), !.error = ext[2]]
        ELSE [acc EXCEPT !.calls = Append(@, c), !.filtered_polys = ext[1],
                         !.total_spikes_removed = @ + c.spikes]

RECURSIVE MultiLoop(_, _, _, _)
\* lines 132-136: the loop over geometry.geoms from index i on; the set of
\* its outcomes, one per choice of make_valid's results
MultiLoop(geoms, i, acc, minAngle) ==
    IF i > Len(geoms) \/ acc.error # <<>>
    THEN {acc}
    ELSE UNION {MultiLoop(geoms, i + 1, LoopBody(acc, c), minAngle) :
                  c \in filter_polygon(geoms[i], minAngle)}

\* the reassembly wrapping a single part in a MultiPolygon
ReassembleWrapSingle(filtered_polys) ==
    IF Len(filtered_polys) >= 1
    THEN IF \A k \in 1..Len(filtered_polys) : IsPolygon(filtered_polys[k])
         THEN <<MultiPolygon(filtered_polys), <<>>>>
         ELSE <<EmptyPolygon, <<"TypeError", "MultiPolygon">>>>
    ELSE <<EmptyPolygon, <<>>>>

\* lines 139-144: the geometry returned for the list of filtered polygons;
\* <<the geometry, the exception raised>>
Reassemble(filtered_polys) ==
    IF Len(filtered_polys) > 1
    THEN IF \A k \in 1..Len(filtered_polys) : IsPolygon(filtered_polys[k])
         THEN <<MultiPolygon(filtered_polys), <<>>>>
         ELSE <<EmptyPolygon, <<"TypeError", "MultiPolygon">>>>
    ELSE IF Len(filtered_polys) = 1
    THEN <<filtered_polys[1], <<>>>>
    ELSE <<EmptyPolygon, <<>>>>

(***************************************************************************)
(* The inputs.                                                             *)
(***************************************************************************)
Xs == {0, 2, 4}
Ys == {0, 2}
Points2D == {<<x, y>> : x \in Xs, y \in Ys}
Points3D == {<<0, 0, 0>>, <<2, 0, 0>>, <<0, 2, 0>>, <<0, 0, 2>>}

\* the closed coordinate list of a working list
Close(w) == Append(w, w[1])

\* the closed rings of n vertices over the points P
Rings(P, n) == {Close(w) : w \in [1..n -> P]}

ExteriorRings == UNION {Rings(Points2D, n) \cup Rings(Points3D, n) : n \in 3..MaxLen}

\* the holes of an input polygon whose exterior is the ring c: none or one
Interiors(c) ==
    IF Len(c[1]) = 2
    THEN {<<>>, << <<<<1, 1>>, <<3, 1>>, <<1, 2>>, <<1, 1>>>> >>}
    ELSE {<<>>, << <<<<1, 1, 0>>, <<3, 1, 0>>, <<1, 2, 0>>, <<1, 1, 0>>>> >>}

PolygonInputs ==
    {EmptyPolygon} \cup
    {Geom("Polygon", c, h, <<>>, 0) : <<c, h>> \in
        UNION {{<<c, h>> : h \in Interiors(c)} : c \in ExteriorRings}}

\* the sub-polygons of a MultiPolygon input: every ring of three vertices over
\* three points, and a ring that crosses itself
MultiPoints == {<<0, 0>>, <<4, 0>>, <<0, 2>>}
Bowtie == <<<<0, 0>>, <<4, 2>>, <<4, 0>>, <<0, 2>>, <<0, 0>>>>
SubPolygons == {Polygon(c) : c \in Rings(MultiPoints, 3) \cup {Bowtie}}

MultiPolygonInputs ==
    {MultiPolygon(gs) : gs \in UNION {[1..n -> SubPolygons] : n \in 0..MaxParts}}

\* geometries of the other kinds
OtherInputs ==
    {Geom(k, <<<<0, 0>>, <<2, 0>>>>, <<>>, <<>>, 0) : k \in {"Point", "LineString"}}
    \cup {Geom("GeometryCollection", <<>>, <<>>, <<Polygon(Bowtie)>>, 0)}

\* the thresholds, in degrees
MinAngles == {0, 30, 90, 180}

(***************************************************************************)
(* The state machine: one call of filter_vertices, and a second call of    *)
(* filter_polygon on the polygon the first one returned.                   *)
(***************************************************************************)
Init ==
    /\ geometry \in PolygonInputs \cup MultiPolygonInputs \cup OtherInputs
    /\ min_angle \in MinAngles
    /\ pc = "start"
    /\ result = <<>>
    /\ error = <<>>
    /\ calls = <<>>

\* lines 127-128: a Polygon is handed to filter_polygon
FilterVerticesPolygon ==
    /\ pc = "start"
    /\ IsPolygon(geometry)
    /\ \E c \in filter_polygon(geometry, min_angle) :
         /\ calls' = <<c>>
         /\ result' = <<c.geom, c.spikes>>
    /\ pc' = "done"
    /\ UNCHANGED <<geometry, min_angle, error>>

\* lines 129-144: a MultiPolygon is filtered part by part and reassembled
FilterVerticesMultiPolygon ==
    /\ pc = "start"
    /\ geometry.kind = "MultiPolygon"
    /\ \E out \in MultiLoop(geometry.geoms, 1,
                            [filtered_polys |-> <<>>, total_spikes_removed |-> 0,
                             calls |-> <<>>, error |-> <<>>], min_angle) :
         LET ra == Reassemble(out.filtered_polys)
             err == IF out.error # <<>> THEN out.error ELSE ra[2]
         IN  /\ calls' = out.calls
             /\ error' = err
             /\ result' = IF err = <<>> THEN <<ra[1], out.total_spikes_removed>> ELSE <<>>
             /\ pc' = IF err = <<>> THEN "done" ELSE "raised"
    /\ UNCHANGED <<geometry, min_angle>>

\* lines 145-146: any other geometry raises ValueError
FilterVerticesUnsupported ==
    /\ pc = "start"
    /\ ~IsPolygon(geometry)
    /\ geometry.kind # "MultiPolygon"
    /\ error' = <<"ValueError", geometry.kind>>
    /\ pc' = "raised"
    /\ UNCHANGED <<geometry, min_angle, result, calls>>

\* filter_polygon again, with the same threshold, on the ring a first call
\* returned unrepaired
Refilter ==
    /\ pc = "done"
    /\ IsPolygon(geometry)
    /\ IsPolygon(result[1]) /\ ~is_empty(result[1]) /\ result[1].part = 0
    /\ \E c \in filter_polygon(result[1], min_angle) :
         calls' = Append(calls, c)
    /\ pc' = "refiltered"
    /\ UNCHANGED <<geometry, min_angle, result, error>>

Next ==
    \/ FilterVerticesPolygon
    \/ FilterVerticesMultiPolygon
    \/ FilterVerticesUnsupported
    \/ Refilter

Spec == Init /\ [][Next]_vars

(***************************************************************************)
(* Vocabulary of the properties.                                           *)
(***************************************************************************)
\* the working list of a polygon: its exterior ring without the closing duplicate
Working(poly) ==
    IF poly.exterior = <<>> THEN <<>>
    ELSE SubSeq(poly.exterior, 1, Len(poly.exterior) - 1)

\* the angle at vertex i (1-based) of the working list w, between its two
\* cyclic neighbours in w
CyclicAngle(w, i) ==
    calculate_angle(w[((i + Len(w) - 2) % Len(w)) + 1], w[i], w[(i % Len(w)) + 1])

\* the elements of w at the indices K, in their order in w
Pick(w, K) ==
    [k \in 1..Cardinality(K) |->
        w[CHOOSE i \in K : Cardinality({j \in K : j < i}) = k - 1]]

\* the calls of filter_polygon made so far
Calls == {calls[k] : k \in 1..Len(calls)}

\* the parts a sub-result contributes to the result of filter_vertices
PartsOf(g) == IF is_empty(g) THEN <<>> ELSE IF IsPolygon(g) THEN <<g>> ELSE g.geoms

\* the number of parts the calls before call k contributed
RECURSIVE Offset(_)
Offset(k) == IF k <= 1 THEN 0 ELSE Offset(k - 1) + Len(PartsOf(calls[k - 1].geom))

RECURSIVE SpikeSum(_)
SpikeSum(k) == IF k = 0 THEN 0 ELSE SpikeSum(k - 1) + calls[k].spikes

\* filter_vertices has returned for a MultiPolygon
MultiReturned == pc = "done" /\ geometry.kind = "MultiPolygon"

(***************************************************************************)
(* C8.  In the main pass every vertex of the working list, the first       *)
(* included, is tested against its cyclic neighbours in the working list,  *)
(* and is dropped and counted exactly when that angle is below min_angle.  *)
(***************************************************************************)
C8_MainPassCyclic ==
    \A c \in Calls :
        LET w == Working(c.poly)
            kept == {i \in 1..Len(w) : CyclicAngle(w, i) >= min_angle}
        IN  /\ c.main = Pick(w, kept)
            /\ c.main_spikes = Len(w) - Cardinality(kept)

(***************************************************************************)
(* C9.  The seam re-check runs only when at least 3 vertices survived the  *)
(* main pass; when the angle at the first survivor between the last and    *)
(* the second is below min_angle the first survivor is replaced by their   *)
(* midpoint, nothing else changes and the count grows by 1; otherwise      *)
(* nothing changes.                                                        *)
(***************************************************************************)
C9_SeamReplacesNeverDrops ==
    \A c \in Calls :
        LET m == c.main
            last == m[Len(m)]
        IN  IF Len(m) >= 3
            THEN /\ Len(c.seam) = Len(m)
                 /\ \A k \in 2..Len(m) : c.seam[k] = m[k]
                 /\ c.built.exterior = Append(c.seam, c.seam[1])
                 /\ IF calculate_angle(last, m[1], m[2]) < min_angle
                    THEN /\ \A d \in 1..Len(m[1]) : 2 * c.seam[1][d] = last[d] + m[2][d]
                         /\ Len(c.seam[1]) = Len(m[1])
                         /\ c.spikes = c.main_spikes + 1
                    ELSE /\ c.seam[1] = m[1]
                         /\ c.spikes = c.main_spikes
            ELSE c.spikes = c.main_spikes /\ c.seam = <<>> /\ is_empty(c.geom)

\* C9: a call whose seam vertex was replaced
C9_Witness ==
    \E c \in Calls :
        /\ Len(c.main) >= 3
        /\ c.seam[1] # c.main[1]
        /\ c.spikes = c.main_spikes + 1
        /\ min_angle = 30

(***************************************************************************)
(* C3.  filter_polygon returns the empty polygon exactly when fewer than 3 *)
(* vertices survive the main pass, and then the count returned is the      *)
(* number of vertices the main pass removed.                               *)
(***************************************************************************)
C3_EmptyIffCollapsed ==
    \A c \in Calls :
        /\ is_empty(c.geom) <=> Len(c.main) < 3
        /\ Len(c.main) < 3 =>
              /\ c.geom = EmptyPolygon
              /\ c.spikes = Len(Working(c.poly)) - Len(c.main)

\* C3: a ring of four vertices collapsed to two survivors
C3_Witness ==
    \E c \in Calls :
        /\ Len(Working(c.poly)) = 4
        /\ Len(c.main) = 2
        /\ c.geom = EmptyPolygon
        /\ c.spikes = 2

(***************************************************************************)
(* C5.  The ring of a non-empty result, before the validity repair, is     *)
(* closed, has at least 4 coordinates, has as many coordinates as the      *)
(* input less the vertices the main pass dropped, and keeps the survivors  *)
(* in their original order; with the seam vertex not replaced, the count   *)
(* returned is the number of vertices dropped.                             *)
(***************************************************************************)
C5_BuiltRingShape ==
    \A c \in Calls :
        ~is_empty(c.geom) =>
            LET w == Working(c.poly)
                b == c.built.exterior
                dropped == Len(w) - Len(c.main)
            IN  /\ b[Len(b)] = b[1]
                /\ Len(b) >= 4
                /\ Len(b) = Len(c.poly.exterior) - dropped
                /\ \E K \in SUBSET (1..Len(w)) :
                      /\ Cardinality(K) = Len(b) - 1
                      /\ \A k \in 2..(Len(b) - 1) : b[k] = Pick(w, K)[k]
                      /\ b[1] = c.main[1] => b[1] = Pick(w, K)[1]
                /\ b[1] = c.main[1] => c.spikes = dropped

\* C5: one spike dropped from a ring that stays a polygon
C5_Witness ==
    \E c \in Calls :
        /\ ~is_empty(c.geom)
        /\ Len(Working(c.poly)) = 4
        /\ Len(c.built.exterior) = 4
        /\ c.built.exterior[1] = c.main[1]
        /\ c.spikes = 1

(***************************************************************************)
(* C4.  A ring of at least 3 vertices whose every vertex has an angle of   *)
(* at least min_angle between its cyclic neighbours comes back with count  *)
(* 0 and the same coordinates in the same order.                           *)
(***************************************************************************)
\* no vertex of the polygon's ring is a spike
NoSpike(poly) ==
    LET w == Working(poly)
    IN  Len(w) >= 3 /\ \A i \in 1..Len(w) : CyclicAngle(w, i) >= min_angle

\* C4 as stated: the polygon returned has the ring of the input
C4_Original ==
    \A c \in Calls :
        NoSpike(c.poly) =>
            /\ c.spikes = 0
            /\ IsPolygon(c.geom) /\ c.geom.part = 0
            /\ c.geom.exterior = c.poly.exterior

\* C4 as amended: the ring built has the coordinates of the input, and it is
\* the ring returned unless it is invalid and handed to the validity repair
C4_UnchangedBeforeRepair ==
    \A c \in Calls :
        NoSpike(c.poly) =>
            /\ c.spikes = 0
            /\ c.built.exterior = c.poly.exterior
            /\ c.geom = c.built \/ ~is_valid(c.built)

\* C4: a valid ring of four vertices without a spike, returned as it came
C4_Witness ==
    \E c \in Calls :
        /\ NoSpike(c.poly)
        /\ Len(Working(c.poly)) = 4
        /\ min_angle = 90
        /\ c.geom = c.built
        /\ c.geom.exterior = c.poly.exterior

(***************************************************************************)
(* C6.  filter_polygon applied again, with the same threshold, to the ring *)
(* a first application returned removes no spike and returns that ring.    *)
(***************************************************************************)
\* C6 as stated: the second application removes nothing and returns the
\* geometry the first one returned
C6_Original ==
    pc = "refiltered" =>
        /\ calls[2].spikes = 0
        /\ calls[2].geom = calls[1].geom

\* C6 as amended: a ring is a fixed point once an application removes nothing
\* from it
C6_IdempotentOnceStable ==
    pc = "refiltered" =>
        /\ calls[1].spikes = 0 =>
              calls[2].spikes = 0 /\ calls[2].geom = calls[1].geom
        /\ calls[2].spikes = 0 => calls[2].geom = calls[1].geom

\* C6: a ring that lost nothing to the first application, filtered again
C6_Witness ==
    /\ pc = "refiltered"
    /\ calls[1].spikes = 0
    /\ calls[2].spikes = 0
    /\ calls[2].geom = calls[1].geom
    /\ min_angle = 30

(***************************************************************************)
(* C10.  The holes of the input polygon are the holes of the result.       *)
(***************************************************************************)
C10_HolesPassedThrough ==
    \A c \in Calls :
        ~is_empty(c.geom) /\ c.geom.part = 0 => c.geom.interiors = c.poly.interiors

(***************************************************************************)
(* C7.  filter_vertices raises exactly for the geometries that are neither *)
(* a Polygon nor a MultiPolygon, and the error names the kind.             *)
(***************************************************************************)
C7_RaisesOnlyForOtherKinds ==
    pc # "start" =>
        IF geometry.kind \in {"Polygon", "MultiPolygon"}
        THEN pc # "raised" /\ error = <<>> /\ Len(result) = 2
        ELSE pc = "raised" /\ error = <<"ValueError", geometry.kind>>

(***************************************************************************)
(* C2.  The total returned for a MultiPolygon is the sum of the counts of  *)
(* all its sub-polygons, those with an empty result included.              *)
(***************************************************************************)
C2_TotalIsSum ==
    MultiReturned =>
        /\ Len(calls) = Len(geometry.geoms)
        /\ \A k \in 1..Len(calls) :
              /\ calls[k].poly = geometry.geoms[k]
              /\ calls[k] \in filter_polygon(geometry.geoms[k], min_angle)
        /\ result[2] = SpikeSum(Len(calls))

\* C2: a sub-polygon that collapsed to nothing and still counts
C2_Witness ==
    /\ MultiReturned
    /\ Len(calls) = 2
    /\ is_empty(calls[1].geom) /\ calls[1].spikes = 1
    /\ ~is_empty(calls[2].geom) /\ calls[2].spikes = 0
    /\ result[2] = 1

(***************************************************************************)
(* C1.  The result for a MultiPolygon is assembled from the sub-results in *)
(* their order: empty ones skipped, multi-part ones flattened; no part     *)
(* gives the empty Polygon, one part gives that Polygon itself, more give  *)
(* a MultiPolygon of all the parts in order.                               *)
(***************************************************************************)
\* every part contributed so far is a Polygon
AllPartsPolygons ==
    \A k \in 1..Len(calls) :
        LET g == calls[k].geom
        IN  \/ is_empty(g)
            \/ IsPolygon(g)
            \/ HasGeoms(g) /\ \A j \in 1..Len(g.geoms) : IsPolygon(g.geoms[j])

====
